---- MODULE Spec2Model ----
(***************************************************************************)
(* Anbar: a single-node S3-like object store.                              *)
(*                                                                         *)
(* The Storage Engine (src/interactors/storage.rs) composes a filesystem   *)
(* tree under base_path with a catalog kept in five sled trees             *)
(* (src/drivers/db.rs).  Every Storage method runs its filesystem step     *)
(* first and its catalog step second; a failing step is a Rust panic       *)
(* (unwrap on Err / None, or an explicit panic!), which leaves whatever    *)
(* the earlier steps already wrote.                                        *)
(*                                                                         *)
(* Only failures that the program state decides are modelled (a missing    *)
(* directory, a missing file, an existing record); spontaneous I/O errors  *)
(* of the disk or of sled are not.                                         *)
(***************************************************************************)
EXTENDS Integers, Sequences, FiniteSets, TLC

(***************************************************************************)
(* Bounds and input sets                                                   *)
(***************************************************************************)
MaxClock == 1
MaxBodyLen == 1
MaxBucketList == 2
MaxPathLen == 4

UserIds == {"u1", "u2"}
\* bucket names and keys are strings the classifier cuts out of the request path:
\* sequences of characters
BucketNames == {<<"b">>, <<"c">>}
Keys == {<<"k">>, <<"l">>}
Bytes == {0, 1}

\* the new_user calls the model issues: <<id, display_name, access_key, secret_access_key>>
NewUserInputs1 == <<"u1", "U1", "ak1", "s1">>

NewUserInputs2 == <<"u2", "U2", "ak2", "s2">>

NewUserInputs == {NewUserInputs1, NewUserInputs2}

\* a second id with the access key of the first
NewUserInputs3 == <<"u2", "U3", "ak1", "s3">>

Bodies == UNION {[1..n -> Bytes] : n \in 0..MaxBodyLen}

\* the directory Db::new opens the KV store in: base_path/.anbar.db
KvDir == <<".", "a", "n", "b", "a", "r", ".", "d", "b">>

(***************************************************************************)
(* Outcomes of a call                                                      *)
(***************************************************************************)
Ok == "ok"
PanicIo == "panic: unwrap on io::Error"
PanicNone == "panic: unwrap on None"
PanicBucketExists == "panic: bucket already exists!"
PanicUserExists == "panic: user already exists!"

(***************************************************************************)
(* Entities                                                                *)
(***************************************************************************)
User(id, display_name, access_key, secret_access_key) ==
    [id |-> id, display_name |-> display_name, access_key |-> access_key,
     secret_access_key |-> secret_access_key]

Bucket(name, owner_id, creation_date) ==
    [name |-> name, owner_id |-> owner_id, object_count |-> 0, size |-> 0,
     creation_date |-> creation_date]

Object(key, bucket, owner_id, size, last_modified) ==
    [key |-> key, bucket |-> bucket, owner_id |-> owner_id, size |-> size,
     last_modified |-> last_modified]

\* impl PartialEq for Bucket: by name
BucketEq(a, b) == a.name = b.name

\* impl PartialEq for Object: by (bucket, key)
ObjectEq(a, b) == a.bucket = b.bucket /\ a.key = b.key

(***************************************************************************)
(* sled::Tree as a function with a growing and shrinking domain            *)
(***************************************************************************)
EmptyTree == [x \in {} |-> 0]

TreeHas(t, k) == k \in DOMAIN t

TreeInsert(t, k, v) == [x \in DOMAIN t \cup {k} |-> IF x = k THEN v ELSE t[x]]

TreeRemove(t, k) == [x \in DOMAIN t \ {k} |-> t[x]]

(***************************************************************************)
(* std::collections::HashSet with the entities' equality                   *)
(***************************************************************************)
\* an insert into a set whose equality compares every field of the Object
HashSetInsert_AllFields(s, o) == s \cup {o}

\* HashSet::insert: an element equal to one already present is NOT stored
HashSetInsert(s, o) == IF \E x \in s : ObjectEq(x, o) THEN s ELSE s \cup {o}

\* serde's Vec -> HashSet<Bucket>: elements inserted in order, first of equals kept
RECURSIVE BucketSetFromSeq(_)
BucketSetFromSeq(q) ==
    IF q = <<>> THEN {}
    ELSE LET front == BucketSetFromSeq(SubSeq(q, 1, Len(q) - 1))
             b == q[Len(q)]
         IN IF \E x \in front : BucketEq(x, b) THEN front ELSE front \cup {b}

\* Option<T>
None == [some |-> FALSE]

Some(v) == [some |-> TRUE, val |-> v]

(***************************************************************************)
(* Db (src/drivers/db.rs).  d is the record of the five trees; a method    *)
(* that writes returns the trees it leaves and its outcome.                *)
(***************************************************************************)
EmptyDb ==
    [access_key_to_user_id |-> EmptyTree, user_id_to_user |-> EmptyTree,
     user_id_to_bucket |-> EmptyTree, bucket_name_to_bucket |-> EmptyTree,
     bucket_name_to_objects |-> EmptyTree]

Db_get_user_by_access_key(d, access_key) ==
    IF ~TreeHas(d.access_key_to_user_id, access_key) THEN None
    ELSE LET user_id == d.access_key_to_user_id[access_key]
         IN IF ~TreeHas(d.user_id_to_user, user_id) THEN None
            ELSE Some(d.user_id_to_user[user_id])

\* a Db::create_user that registers the access key before it looks for the id
Db_create_user_KeyThenCheck(d, user) ==
    LET keyed == [d EXCEPT !.access_key_to_user_id = TreeInsert(@, user.access_key, user.id)]
    IN IF TreeHas(d.user_id_to_user, user.id)
       THEN [db |-> keyed, ret |-> PanicUserExists]
       ELSE [db |-> [keyed EXCEPT
                       !.user_id_to_user = TreeInsert(@, user.id, user),
                       !.user_id_to_bucket = TreeInsert(@, user.id, <<>>)],
             ret |-> Ok]

Db_create_user(d, user) ==
    IF TreeHas(d.user_id_to_user, user.id)
    THEN [db |-> d, ret |-> PanicUserExists]
    ELSE [db |-> [d EXCEPT
                    !.user_id_to_user = TreeInsert(@, user.id, user),
                    !.user_id_to_bucket = TreeInsert(@, user.id, <<>>),
                    !.access_key_to_user_id = TreeInsert(@, user.access_key, user.id)],
          ret |-> Ok]

\* a Db::create_bucket that writes the record before it looks for an existing one
Db_create_bucket_WriteThenCheck(d, bucket) ==
    LET d1 == [d EXCEPT !.bucket_name_to_bucket = TreeInsert(@, bucket.name, bucket)]
    IN IF TreeHas(d.bucket_name_to_bucket, bucket.name)
       THEN [db |-> d1, ret |-> PanicBucketExists]
       ELSE IF ~TreeHas(d1.user_id_to_bucket, bucket.owner_id)
            THEN [db |-> d1, ret |-> PanicNone]
            ELSE LET user_buckets == Append(d1.user_id_to_bucket[bucket.owner_id], bucket)
                 IN [db |-> [d1 EXCEPT !.user_id_to_bucket =
                                          TreeInsert(@, bucket.owner_id, user_buckets)],
                     ret |-> Ok]

Db_create_bucket(d, bucket) ==
    IF TreeHas(d.bucket_name_to_bucket, bucket.name)
    THEN [db |-> d, ret |-> PanicBucketExists]
    ELSE LET d1 == [d EXCEPT !.bucket_name_to_bucket = TreeInsert(@, bucket.name, bucket)]
         IN IF ~TreeHas(d1.user_id_to_bucket, bucket.owner_id)
            THEN [db |-> d1, ret |-> PanicNone]
            ELSE LET user_buckets == Append(d1.user_id_to_bucket[bucket.owner_id], bucket)
                 IN [db |-> [d1 EXCEPT !.user_id_to_bucket =
                                          TreeInsert(@, bucket.owner_id, user_buckets)],
                     ret |-> Ok]

Db_get_buckets_by_user_id(d, user_id) ==
    IF ~TreeHas(d.user_id_to_bucket, user_id)
    THEN [ret |-> PanicNone, buckets |-> {}]
    ELSE [ret |-> Ok, buckets |-> BucketSetFromSeq(d.user_id_to_bucket[user_id])]

Db_get_objects_by_bucket_name(d, bucket_name) ==
    IF TreeHas(d.bucket_name_to_objects, bucket_name)
    THEN d.bucket_name_to_objects[bucket_name]
    ELSE {}

\* a Db::create_object that stores the new object as the whole set of its bucket
Db_create_object_Alone(d, object) ==
    [d EXCEPT !.bucket_name_to_objects = TreeInsert(@, object.bucket, {object})]

Db_create_object(d, object) ==
    LET objects == HashSetInsert(Db_get_objects_by_bucket_name(d, object.bucket), object)
    IN [d EXCEPT !.bucket_name_to_objects = TreeInsert(@, object.bucket, objects)]

Db_get_object(d, bucket, object) ==
    LET found == {o \in Db_get_objects_by_bucket_name(d, bucket) : o.key = object}
    IN IF found = {} THEN None ELSE Some(CHOOSE o \in found : TRUE)

\* a Db::delete_bucket that forgets the bucket's object set
Db_delete_bucket_KeepsObjects(d, bucket) ==
    [d EXCEPT !.bucket_name_to_bucket = TreeRemove(@, bucket)]

\* a Db::delete_bucket that forgets the bucket record
Db_delete_bucket_KeepsRecord(d, bucket) ==
    [d EXCEPT !.bucket_name_to_objects = TreeRemove(@, bucket)]

Db_delete_bucket(d, bucket) ==
    [d EXCEPT !.bucket_name_to_bucket = TreeRemove(@, bucket),
              !.bucket_name_to_objects = TreeRemove(@, bucket)]

\* objects.retain(|o| o.key == object): the elements for which the closure holds stay
Db_delete_object(d, bucket, object) ==
    LET objects == {o \in Db_get_objects_by_bucket_name(d, bucket) : o.key = object}
    IN [d EXCEPT !.bucket_name_to_objects = TreeInsert(@, bucket, objects)]

(***************************************************************************)
(* The filesystem under base_path: the directories directly below it and   *)
(* the files base_path/<bucket>/<key> with their bytes.                    *)
(***************************************************************************)
DirExists(f, name) == name \in f.dirs

FileExists(f, bucket, key) == <<bucket, key>> \in DOMAIN f.files

\* fs::create_dir
fs_create_dir(f, name) == [f EXCEPT !.dirs = @ \cup {name}]

\* File::with_options().create(true).truncate(true).write(true).open + write_all + sync_all
fs_write_file(f, bucket, key, body) ==
    [f EXCEPT !.files = TreeInsert(@, <<bucket, key>>, body)]

\* fs::remove_file
fs_remove_file(f, bucket, key) == [f EXCEPT !.files = TreeRemove(@, <<bucket, key>>)]

\* fs::remove_dir_all
fs_remove_dir_all(f, name) ==
    [dirs |-> f.dirs \ {name},
     files |-> [p \in {q \in DOMAIN f.files : q[1] # name} |-> f.files[p]]]

(***************************************************************************)
(* Storage (src/interactors/storage.rs).  Each writing method is given as  *)
(* its filesystem step, its catalog step, and the method that runs the     *)
(* second only when the first did not panic.  f is the filesystem, d the   *)
(* catalog, t the value Local::now() returns.                              *)
(***************************************************************************)
EmptyFs == [dirs |-> {KvDir}, files |-> EmptyTree]

Storage_new_user(d, id, display_name, access_key, secret_access_key) ==
    Db_create_user(d, User(id, display_name, access_key, secret_access_key))

Storage_find_user(d, id) == Db_get_user_by_access_key(d, id)

create_bucket_fs(f, name) ==
    IF ~DirExists(f, name) THEN [fs |-> fs_create_dir(f, name), ret |-> Ok]
    ELSE [fs |-> f, ret |-> Ok]

create_bucket_db(d, owner_id, name, t) == Db_create_bucket(d, Bucket(name, owner_id, t))

Storage_create_bucket(f, d, owner_id, name, t) ==
    LET a == create_bucket_fs(f, name)
    IN IF a.ret # Ok THEN [fs |-> a.fs, db |-> d, ret |-> a.ret]
       ELSE LET b == create_bucket_db(d, owner_id, name, t)
            IN [fs |-> a.fs, db |-> b.db, ret |-> b.ret]

Storage_list_buckets(d, owner_id) == Db_get_buckets_by_user_id(d, owner_id)

Storage_list_objects(d, bucket) == Db_get_objects_by_bucket_name(d, bucket)

\* open(path) creates the file, not its parent directory
put_object_fs(f, bucket, object, body) ==
    IF ~DirExists(f, bucket) THEN [fs |-> f, ret |-> PanicIo]
    ELSE [fs |-> fs_write_file(f, bucket, object, body), ret |-> Ok]

put_object_db(d, user, bucket, object, body, t) ==
    [db |-> Db_create_object(d, Object(object, bucket, user.id, Len(body), t)),
     ret |-> Ok]

Storage_put_object(f, d, user, bucket, object, body, t) ==
    LET a == put_object_fs(f, bucket, object, body)
    IN IF a.ret # Ok THEN [fs |-> a.fs, db |-> d, ret |-> a.ret]
       ELSE LET b == put_object_db(d, user, bucket, object, body, t)
            IN [fs |-> a.fs, db |-> b.db, ret |-> b.ret]

\* File::open + read_to_end
get_object_fs(f, bucket, object) ==
    IF ~FileExists(f, bucket, object) THEN [ret |-> PanicIo]
    ELSE [ret |-> Ok, buf |-> f.files[<<bucket, object>>]]

get_object_db(d, bucket, object) ==
    LET o == Db_get_object(d, bucket, object)
    IN IF ~o.some THEN [ret |-> PanicNone] ELSE [ret |-> Ok, object |-> o.val]

Storage_get_object(f, d, bucket, object) ==
    LET a == get_object_fs(f, bucket, object)
    IN IF a.ret # Ok THEN [ret |-> a.ret]
       ELSE LET b == get_object_db(d, bucket, object)
            IN IF b.ret # Ok THEN [ret |-> b.ret]
               ELSE [ret |-> Ok, buf |-> a.buf, object |-> b.object]

delete_bucket_fs(f, bucket) ==
    IF ~DirExists(f, bucket) THEN [fs |-> f, ret |-> PanicIo]
    ELSE [fs |-> fs_remove_dir_all(f, bucket), ret |-> Ok]

delete_bucket_db(d, bucket) == [db |-> Db_delete_bucket(d, bucket), ret |-> Ok]

Storage_delete_bucket(f, d, bucket) ==
    LET a == delete_bucket_fs(f, bucket)
    IN IF a.ret # Ok THEN [fs |-> a.fs, db |-> d, ret |-> a.ret]
       ELSE LET b == delete_bucket_db(d, bucket)
            IN [fs |-> a.fs, db |-> b.db, ret |-> b.ret]

delete_object_fs(f, bucket, object) ==
    IF ~FileExists(f, bucket, object) THEN [fs |-> f, ret |-> PanicIo]
    ELSE [fs |-> fs_remove_file(f, bucket, object), ret |-> Ok]

delete_object_db(d, bucket, object) ==
    [db |-> Db_delete_object(d, bucket, object), ret |-> Ok]

Storage_delete_object(f, d, bucket, object) ==
    LET a == delete_object_fs(f, bucket, object)
    IN IF a.ret # Ok THEN [fs |-> a.fs, db |-> d, ret |-> a.ret]
       ELSE LET b == delete_object_db(d, bucket, object)
            IN [fs |-> a.fs, db |-> b.db, ret |-> b.ret]

(***************************************************************************)
(* Requests.  A request is its method, its path and the values of its      *)
(* headers (strings: sequences of characters), its body, and its           *)
(* Authorization header: absent, empty, text the pattern of Auth::parse    *)
(* does not match ("malformed"), or text it matches ("sigv4") with the     *)
(* five captured fields.                                                   *)
(***************************************************************************)
AbsentHeader == [kind |-> "absent"]

EmptyHeader == [kind |-> "empty"]

MalformedHeader == [kind |-> "malformed"]

SigV4Header(access_key, date, region, signed_headers, signature) ==
    [kind |-> "sigv4", access_key |-> access_key, date |-> date, region |-> region,
     signed_headers |-> signed_headers, signature |-> signature]

(***************************************************************************)
(* Auth (src/drivers/s3.rs).  SHA-256, HMAC-SHA256 and the hex formatting  *)
(* are terms over their arguments (no collisions); a join is the sequence  *)
(* of the joined parts.                                                    *)
(***************************************************************************)
Sha256(m) == <<"sha256", m>>

Hmac(key, m) == <<"hmac", key, m>>

Hex(x) == <<"hex", x>>

\* str::trim
RECURSIVE Trim(_)
Trim(v) ==
    IF v = <<>> THEN v
    ELSE IF Head(v) = " " THEN Trim(Tail(v))
    ELSE IF v[Len(v)] = " " THEN Trim(SubSeq(v, 1, Len(v) - 1))
    ELSE v

\* re.captures(header).unwrap(): None stands for the panic
Auth_parse(header) ==
    IF header.kind # "sigv4" THEN None
    ELSE Some([access_key |-> header.access_key, date |-> header.date,
               region |-> header.region, signature |-> header.signature,
               signed_headers |-> header.signed_headers])

\* the key of the HMAC that key_builder returns
Auth_key_builder(auth, secret_access_key) ==
    LET date_key == Hmac(<<"AWS4", secret_access_key>>, auth.date)
        region_key == Hmac(date_key, auth.region)
        service_key == Hmac(region_key, "s3")
        signing_key == Hmac(service_key, "aws4_request")
    IN signing_key

\* req.headers().get(..).unwrap() on every header the two builders read
Auth_headers_present(auth, r) ==
    /\ \A i \in 1..Len(auth.signed_headers) : auth.signed_headers[i] \in DOMAIN r.headers
    /\ "x-amz-content-sha256" \in DOMAIN r.headers
    /\ "x-amz-date" \in DOMAIN r.headers

\* a canonical request with the header values as received, not trimmed
Auth_canonical_request_NoTrim(auth, r) ==
    <<r.method,
      r.path,
      r.query,
      [i \in 1..Len(auth.signed_headers) |->
          <<auth.signed_headers[i], r.headers[auth.signed_headers[i]]>>],
      "",
      auth.signed_headers,
      r.headers["x-amz-content-sha256"]>>

Auth_canonical_request(auth, r) ==
    <<r.method,
      r.path,
      r.query,
      [i \in 1..Len(auth.signed_headers) |->
          <<auth.signed_headers[i], Trim(r.headers[auth.signed_headers[i]])>>],
      "",
      auth.signed_headers,
      r.headers["x-amz-content-sha256"]>>

Auth_string_to_sign(auth, r) ==
    <<"AWS4-HMAC-SHA256",
      r.headers["x-amz-date"],
      <<auth.date, auth.region, "s3", "aws4_request">>,
      Hex(Sha256(Auth_canonical_request(auth, r)))>>

(***************************************************************************)
(* App (src/drivers/web_server.rs): the pure parts                         *)
(***************************************************************************)
\* an absent header reads as ""
App_get_auth_header(r) ==
    IF r.authorization.kind = "absent" THEN EmptyHeader ELSE r.authorization

\* a check that never sees a mismatch
App_check_signature_NoCompare(u, auth, r) ==
    Hex(Hmac(Auth_key_builder(auth, u.secret_access_key), Auth_string_to_sign(auth, r)))
        = Hex(Hmac(Auth_key_builder(auth, u.secret_access_key), Auth_string_to_sign(auth, r)))

App_check_signature(u, auth, r) ==
    Hex(Hmac(Auth_key_builder(auth, u.secret_access_key), Auth_string_to_sign(auth, r)))
        = auth.signature

\* str::splitn(2, '/')
Splitn2(p) ==
    LET slashes == {i \in 1..Len(p) : p[i] = "/"}
    IN IF slashes = {} THEN <<p>>
       ELSE LET i == CHOOSE j \in slashes : \A k \in slashes : j <= k
            IN <<SubSeq(p, 1, i - 1), SubSeq(p, i + 1, Len(p))>>

NonEmpty(part) == part # <<>>

Operation(op, bucket, key) == [op |-> op, bucket |-> bucket, key |-> key]

\* a classifier that keeps the empty segments
App_detect_operation_NoFilter(r) ==
    IF r.path = <<>> \/ Head(r.path) # "/" THEN None
    ELSE LET parts == Splitn2(Tail(r.path))
             has_key == Len(parts) >= 2
             key == IF has_key THEN parts[2] ELSE <<>>
         IN Some(
              IF r.method = "GET" /\ has_key THEN Operation("GetObject", parts[1], key)
              ELSE IF r.method = "PUT" /\ has_key THEN Operation("PutObject", parts[1], key)
              ELSE IF r.method = "DELETE" /\ has_key
                THEN Operation("DeleteObject", parts[1], key)
              ELSE IF r.method = "PUT" THEN Operation("CreateBucket", parts[1], <<>>)
              ELSE IF r.method = "GET" THEN Operation("ListObjects", parts[1], <<>>)
              ELSE IF r.method = "DELETE" THEN Operation("DeleteBucket", parts[1], <<>>)
              ELSE Operation("ListBuckets", <<>>, <<>>))

\* strip_prefix('/').unwrap(): None stands for the panic
App_detect_operation(r) ==
    IF r.path = <<>> \/ Head(r.path) # "/" THEN None
    ELSE LET parts == SelectSeq(Splitn2(Tail(r.path)), NonEmpty)
             has_bucket == Len(parts) >= 1
             has_key == Len(parts) >= 2
             bucket == IF has_bucket THEN parts[1] ELSE <<>>
             key == IF has_key THEN parts[2] ELSE <<>>
         IN Some(
              IF r.method = "GET" /\ has_bucket /\ has_key
                THEN Operation("GetObject", bucket, key)
              ELSE IF r.method = "PUT" /\ has_bucket /\ has_key
                THEN Operation("PutObject", bucket, key)
              ELSE IF r.method = "DELETE" /\ has_bucket /\ has_key
                THEN Operation("DeleteObject", bucket, key)
              ELSE IF r.method = "PUT" /\ has_bucket
                THEN Operation("CreateBucket", bucket, <<>>)
              ELSE IF r.method = "GET" /\ has_bucket
                THEN Operation("ListObjects", bucket, <<>>)
              ELSE IF r.method = "DELETE" /\ has_bucket
                THEN Operation("DeleteBucket", bucket, <<>>)
              ELSE Operation("ListBuckets", <<>>, <<>>))

(***************************************************************************)
(* State.  fs and db are what Storage owns (base_path's tree and the Db);  *)
(* now is the wall clock Local::now() reads; last is the Storage call made *)
(* last and how it ended.  Two history variables serve the properties:     *)
(* failed says that some call so far has panicked, and purged holds the    *)
(* catalog objects of the buckets that a delete_bucket removed, each until *)
(* a put_object writes its (bucket, key) again.                            *)
(*                                                                         *)
(* The server (src/bin/s3_server.rs, src/drivers/web_server.rs) adds the   *)
(* tokio Mutex around the Storage (lock: its holder) and, per request      *)
(* handler, the place in App::handle (pc), the request (req), the User     *)
(* that find_user returned (user), the bytes get_object has read (buf) and *)
(* the response (resp).  A third history variable, written, holds for      *)
(* every (bucket, key) that a handler's put_object wrote last, and that    *)
(* no later delete_object or delete_bucket of a handler removed, the body  *)
(* and the clock value of that put_object.                                 *)
(***************************************************************************)
VARIABLES fs, db, now, last, failed, purged, lock, pc, req, user, buf, resp, written

vars == <<fs, db, now, last, failed, purged, lock, pc, req, user, buf, resp, written>>

\* what the sequential caller records
hist == <<last, failed, purged>>

\* what the server adds
srv == <<lock, pc, req, user, buf, resp, written>>

Handlers == {"h1", "h2"}

NoHolder == "none"

NoRequest == [method |-> "none"]

NoUser == User("", "", "", "")

NoResponse == [status |-> 0, panic |-> "", body |-> <<>>]

SrvIdle ==
    /\ lock = NoHolder
    /\ pc = [h \in Handlers |-> "idle"]
    /\ req = [h \in Handlers |-> NoRequest]
    /\ user = [h \in Handlers |-> NoUser]
    /\ buf = [h \in Handlers |-> <<>>]
    /\ resp = [h \in Handlers |-> NoResponse]
    /\ written = EmptyTree

Call(op, ret) == [op |-> op, ret |-> ret]

Init ==
    /\ fs = EmptyFs
    /\ db = EmptyDb
    /\ now = 0
    /\ last = Call("new", Ok)
    /\ failed = FALSE
    /\ purged = {}
    /\ SrvIdle

Returned(op, ret) ==
    /\ last' = Call(op, ret)
    /\ failed' = (failed \/ ret # Ok)

Tick ==
    /\ now < MaxClock
    /\ now' = now + 1
    /\ UNCHANGED <<fs, db, last, failed, purged, srv>>

NewUser(u) ==
    LET r == Storage_new_user(db, u[1], u[2], u[3], u[4])
    IN /\ db' = r.db
       /\ Returned("new_user", r.ret)
       /\ UNCHANGED <<fs, now, purged, srv>>

\* the owner's bucket list only grows: the model stops creating at MaxBucketList
CreateBucket(owner_id, name) ==
    LET r == Storage_create_bucket(fs, db, owner_id, name, now)
    IN /\ \A u \in DOMAIN r.db.user_id_to_bucket :
             Len(r.db.user_id_to_bucket[u]) <= MaxBucketList
       /\ fs' = r.fs
       /\ db' = r.db
       /\ Returned("create_bucket", r.ret)
       /\ UNCHANGED <<now, purged, srv>>

ListBuckets(owner_id) ==
    /\ Returned("list_buckets", Storage_list_buckets(db, owner_id).ret)
    /\ UNCHANGED <<fs, db, now, purged, srv>>

ListObjects(bucket) ==
    /\ Returned("list_objects", Ok)
    /\ UNCHANGED <<fs, db, now, purged, srv>>

\* the caller passes a User it got from find_user
PutObject(user_id, bucket, object, body) ==
    /\ TreeHas(db.user_id_to_user, user_id)
    /\ LET r == Storage_put_object(fs, db, db.user_id_to_user[user_id], bucket, object,
                                   body, now)
       IN /\ fs' = r.fs
          /\ db' = r.db
          /\ Returned("put_object", r.ret)
          /\ purged' = IF r.ret = Ok
                        THEN {o \in purged : ~(o.bucket = bucket /\ o.key = object)}
                        ELSE purged
          /\ UNCHANGED <<now, srv>>

GetObject(bucket, object) ==
    /\ Returned("get_object", Storage_get_object(fs, db, bucket, object).ret)
    /\ UNCHANGED <<fs, db, now, purged, srv>>

DeleteBucket(bucket) ==
    LET r == Storage_delete_bucket(fs, db, bucket)
    IN /\ fs' = r.fs
       /\ db' = r.db
       /\ Returned("delete_bucket", r.ret)
       /\ purged' = IF r.ret = Ok
                     THEN purged \cup Storage_list_objects(db, bucket)
                     ELSE purged
       /\ UNCHANGED <<now, srv>>

DeleteObject(bucket, object) ==
    LET r == Storage_delete_object(fs, db, bucket, object)
    IN /\ fs' = r.fs
       /\ db' = r.db
       /\ Returned("delete_object", r.ret)
       /\ UNCHANGED <<now, purged, srv>>

(***************************************************************************)
(* The Storage Engine called by one caller at a time, with the calls'      *)
(* arguments drawn from the given sets.                                    *)
(***************************************************************************)
EngineNext(new_users, owners, buckets, keys, bodies) ==
    \/ \E u \in new_users : NewUser(u)
    \/ \E o \in owners, n \in buckets : CreateBucket(o, n)
    \/ \E o \in owners : ListBuckets(o)
    \/ \E b \in buckets : ListObjects(b)
    \/ \E u \in owners, b \in buckets, k \in keys, body \in bodies : PutObject(u, b, k, body)
    \/ \E b \in buckets, k \in keys : GetObject(b, k)
    \/ \E b \in buckets : DeleteBucket(b)
    \/ \E b \in buckets, k \in keys : DeleteObject(b, k)

\* one bucket with two keys, one user; "u2" is an owner id no new_user call creates
Next == Tick \/ EngineNext({NewUserInputs1}, UserIds, {<<"b">>}, Keys, Bodies)

Spec == Init /\ [][Next]_vars

\* two buckets and two users, one key and the empty body, all calls within one
\* reading of the clock
NextBuckets == EngineNext(NewUserInputs, UserIds, BucketNames, {<<"k">>}, {<<>>})

SpecBuckets == Init /\ [][NextBuckets]_vars

\* users: two ids, two access keys, and a third new_user that reuses an access key
NextUsers ==
    EngineNext(NewUserInputs \cup {NewUserInputs3}, UserIds, {<<"b">>}, {<<"k">>}, {<<>>})

SpecUsers == Init /\ [][NextUsers]_vars

\* one user, one bucket, and put_object calls that name the directory of the KV store
NextKv ==
    \/ EngineNext({NewUserInputs1}, {"u1"}, {<<"b">>}, {<<"k">>}, Bodies)
    \/ \E body \in Bodies : PutObject("u1", KvDir, <<"k">>, body)

SpecKv == Init /\ [][NextKv]_vars

\* two buckets with two keys each, one user, empty bodies
NextFrame == EngineNext({NewUserInputs1}, {"u1"}, BucketNames, Keys, {<<>>})

SpecFrame == Init /\ [][NextFrame]_vars

(***************************************************************************)
(* The server.  main (src/bin/s3_server.rs) makes the Storage, one user    *)
(* and one bucket, wraps the Storage in a Mutex and serves every request   *)
(* with App::handle on its own task.  Each App method that reaches the     *)
(* Storage takes the lock, runs the Storage method and drops the guard on  *)
(* return or on unwinding; a panic ends the task without a response.       *)
(***************************************************************************)
BootUser == <<"mehdy", "Mehdy", "ABC1234", "AbC1Zxv">>

Buck == <<"b", "u", "c", "k">>

Hello == <<"h">>

RootPath == <<"/">>

BucketPath(bucket) == <<"/">> \o bucket

ObjectPath(bucket, key) == <<"/">> \o bucket \o <<"/">> \o key

Md5(body) == <<"md5", body>>

SignedHeaders == <<"host", "x-amz-content-sha256", "x-amz-date">>

Unsigned(method, path, body) ==
    [method |-> method, path |-> path, query |-> "",
     headers |-> [n \in {"host", "x-amz-content-sha256", "x-amz-date"} |->
                     IF n = "host" THEN <<"l", " ">>
                     ELSE IF n = "x-amz-date" THEN <<"t">>
                     ELSE <<"s">>],
     body |-> body,
     authorization |-> AbsentHeader]

\* the signature a client holding the secret computes for the request
ClientSignature(secret, a, r) ==
    Hex(Hmac(Auth_key_builder(a, secret), Auth_string_to_sign(a, r)))

\* the request signed with the secret, and with the signature made for signed_as
SignedAs(r, access_key, secret, signed_as) ==
    LET a == [date |-> "20240101", region |-> "us-east-1", signed_headers |-> SignedHeaders]
    IN [r EXCEPT !.authorization =
            SigV4Header(access_key, a.date, a.region, a.signed_headers,
                        ClientSignature(secret, a, signed_as))]

Signed(r, access_key, secret) == SignedAs(r, access_key, secret, r)

Methods == {"GET", "PUT", "DELETE", "POST"}

Paths == {RootPath, BucketPath(Buck), ObjectPath(Buck, Hello)}

BodyOf(method, path) == IF method = "PUT" /\ path = ObjectPath(Buck, Hello) THEN <<0>> ELSE <<>>

PutHello == Unsigned("PUT", ObjectPath(Buck, Hello), <<0>>)

\* correctly signed requests of the user main creates
GoodRequests ==
    {Signed(Unsigned(m, p, BodyOf(m, p)), BootUser[3], BootUser[4]) : m \in Methods, p \in Paths}

\* requests whose signature is not the one of the access key's owner for this request:
\* made with another secret, or made for another request
BadlySignedRequests ==
    {Signed(PutHello, BootUser[3], "other"),
     SignedAs(Unsigned("DELETE", BucketPath(Buck), <<>>), BootUser[3], BootUser[4],
              Unsigned("GET", BucketPath(Buck), <<>>))}

OtherRequests ==
    {Signed(PutHello, "nokey", BootUser[4]),
     PutHello,
     [PutHello EXCEPT !.authorization = EmptyHeader],
     [PutHello EXCEPT !.authorization = MalformedHeader]}

ServerRequests == GoodRequests \cup BadlySignedRequests \cup OtherRequests

Response(status, headers, body) ==
    [status |-> status, panic |-> "", headers |-> headers, body |-> body]

\* the task panicked: the connection closes without a response
Panicked(msg) == [status |-> 0, panic |-> msg, headers |-> <<>>, body |-> <<>>]

AuthOf(h) == Auth_parse(App_get_auth_header(req[h])).val

OpOf(h) == App_detect_operation(req[h]).val

\* a lock() that returns whoever holds the guard
MutexFree_NoExclusion == TRUE

\* storage.lock().await returns when no guard is alive
MutexFree == lock = NoHolder

ServerInit ==
    LET u == Storage_new_user(EmptyDb, BootUser[1], BootUser[2], BootUser[3], BootUser[4])
        b == Storage_create_bucket(EmptyFs, u.db, BootUser[1], Buck, 0)
    IN /\ fs = b.fs
       /\ db = b.db
       /\ now = 0
       /\ last = Call("create_bucket", b.ret)
       /\ failed = FALSE
       /\ purged = {}
       /\ SrvIdle

Goto(h, label) == pc' = [pc EXCEPT ![h] = label]

Respond(h, r) ==
    /\ resp' = [resp EXCEPT ![h] = r]
    /\ Goto(h, "done")

\* handle, up to the first await: the header is read and parsed
Receive(h, r) ==
    /\ pc[h] = "idle"
    /\ App_detect_operation(r).some
    /\ App_detect_operation(r).val.op = "CreateBucket" =>
          \A u \in DOMAIN db.user_id_to_bucket :
              Len(db.user_id_to_bucket[u]) < MaxBucketList
    /\ req' = [req EXCEPT ![h] = r]
    /\ IF Auth_parse(App_get_auth_header(r)).some
       THEN Goto(h, "find_user_lock") /\ UNCHANGED resp
       ELSE Respond(h, Panicked(PanicNone))
    /\ UNCHANGED <<fs, db, now, hist, lock, user, buf, written>>

\* App::find_user: the lock is taken
FindUserLock(h) ==
    /\ pc[h] = "find_user_lock"
    /\ MutexFree
    /\ lock' = h
    /\ Goto(h, "find_user")
    /\ UNCHANGED <<fs, db, now, hist, req, user, buf, resp, written>>

\* a find_user whose guard is not dropped when the unwrap panics
FindUser_KeepsLockOnPanic(h) ==
    /\ pc[h] = "find_user"
    /\ LET u == Storage_find_user(db, AuthOf(h).access_key)
       IN IF u.some
          THEN /\ user' = [user EXCEPT ![h] = u.val]
               /\ Goto(h, "check")
               /\ lock' = NoHolder
               /\ UNCHANGED resp
          ELSE /\ Respond(h, Panicked(PanicNone))
               /\ UNCHANGED <<user, lock>>
    /\ UNCHANGED <<fs, db, now, hist, req, buf, written>>

\* App::find_user: the lookup, and the unwrap of its result
FindUser(h) ==
    /\ pc[h] = "find_user"
    /\ lock' = NoHolder
    /\ LET u == Storage_find_user(db, AuthOf(h).access_key)
       IN IF u.some
          THEN /\ user' = [user EXCEPT ![h] = u.val]
               /\ Goto(h, "check")
               /\ UNCHANGED resp
          ELSE /\ Respond(h, Panicked(PanicNone))
               /\ UNCHANGED user
    /\ UNCHANGED <<fs, db, now, hist, req, buf, written>>

\* handle: the signature check and the classification of the request
CheckSignature(h) ==
    /\ pc[h] = "check"
    /\ IF App_get_auth_header(req[h]) # EmptyHeader /\ ~Auth_headers_present(AuthOf(h), req[h])
       THEN Respond(h, Panicked(PanicNone))
       ELSE IF /\ App_get_auth_header(req[h]) # EmptyHeader
               /\ ~App_check_signature(user[h], AuthOf(h), req[h])
       THEN Respond(h, Response(401, <<>>, <<>>))
       ELSE /\ Goto(h, IF OpOf(h).op = "PutObject" THEN "body" ELSE "op_lock")
            /\ UNCHANGED resp
    /\ UNCHANGED <<fs, db, now, hist, lock, req, user, buf, written>>

\* the PutObject arm: the body is collected (an await)
ReadBody(h) ==
    /\ pc[h] = "body"
    /\ Goto(h, "op_lock")
    /\ UNCHANGED <<fs, db, now, hist, lock, req, user, buf, resp, written>>

HasFsStep(op) ==
    op \in {"CreateBucket", "DeleteBucket", "PutObject", "GetObject", "DeleteObject"}

\* App::list_buckets .. App::delete_object: the lock is taken
OpLock(h) ==
    /\ pc[h] = "op_lock"
    /\ MutexFree
    /\ lock' = h
    /\ Goto(h, IF HasFsStep(OpOf(h).op) THEN "fs" ELSE "db")
    /\ UNCHANGED <<fs, db, now, hist, req, user, buf, resp, written>>

\* a Storage method that goes on to its catalog step when its filesystem step failed
OpFs_CatalogAnyway(h) ==
    /\ pc[h] = "fs"
    /\ LET o == OpOf(h)
           a == CASE o.op = "CreateBucket" -> create_bucket_fs(fs, o.bucket)
                  [] o.op = "DeleteBucket" -> delete_bucket_fs(fs, o.bucket)
                  [] o.op = "PutObject" -> put_object_fs(fs, o.bucket, o.key, req[h].body)
                  [] o.op = "DeleteObject" -> delete_object_fs(fs, o.bucket, o.key)
                  [] o.op = "GetObject" ->
                        LET g == get_object_fs(fs, o.bucket, o.key)
                        IN [fs |-> fs, ret |-> g.ret]
       IN /\ fs' = a.fs
          /\ buf' = IF o.op = "GetObject" /\ a.ret = Ok
                    THEN [buf EXCEPT ![h] = get_object_fs(fs, o.bucket, o.key).buf]
                    ELSE buf
          /\ Goto(h, "db")
          /\ UNCHANGED <<lock, resp>>
    /\ UNCHANGED <<db, now, hist, req, user, written>>

\* the filesystem step of the Storage method
OpFs(h) ==
    /\ pc[h] = "fs"
    /\ LET o == OpOf(h)
           a == CASE o.op = "CreateBucket" -> create_bucket_fs(fs, o.bucket)
                  [] o.op = "DeleteBucket" -> delete_bucket_fs(fs, o.bucket)
                  [] o.op = "PutObject" -> put_object_fs(fs, o.bucket, o.key, req[h].body)
                  [] o.op = "DeleteObject" -> delete_object_fs(fs, o.bucket, o.key)
                  [] o.op = "GetObject" ->
                        LET g == get_object_fs(fs, o.bucket, o.key)
                        IN [fs |-> fs, ret |-> g.ret]
       IN /\ fs' = a.fs
          /\ buf' = IF o.op = "GetObject" /\ a.ret = Ok
                    THEN [buf EXCEPT ![h] = get_object_fs(fs, o.bucket, o.key).buf]
                    ELSE buf
          /\ IF a.ret = Ok
             THEN Goto(h, "db") /\ UNCHANGED <<lock, resp>>
             ELSE Respond(h, Panicked(a.ret)) /\ lock' = NoHolder
    /\ UNCHANGED <<db, now, hist, req, user, written>>

\* the catalog step of the Storage method, and the return of the App method
OpDb(h) ==
    /\ pc[h] = "db"
    /\ lock' = NoHolder
    /\ LET o == OpOf(h)
       IN CASE o.op = "ListBuckets" ->
                 LET l == Storage_list_buckets(db, user[h].id)
                 IN /\ UNCHANGED db
                    /\ Respond(h, IF l.ret # Ok THEN Panicked(l.ret)
                                  ELSE Response(200, <<>>,
                                         [buckets |-> {<<b.name, b.creation_date>> : b \in l.buckets},
                                          owner |-> <<user[h].display_name, user[h].id>>]))
            [] o.op = "ListObjects" ->
                 /\ UNCHANGED db
                 /\ Respond(h, Response(200, <<>>,
                                 [contents |-> {<<ob.key, ob.owner_id, ob.size, ob.last_modified>> :
                                                   ob \in Storage_list_objects(db, o.bucket)},
                                  name |-> o.bucket]))
            [] o.op = "CreateBucket" ->
                 LET r == create_bucket_db(db, user[h].id, o.bucket, now)
                 IN /\ db' = r.db
                    /\ Respond(h, IF r.ret # Ok THEN Panicked(r.ret)
                                  ELSE Response(200, <<>>, <<>>))
            [] o.op = "DeleteBucket" ->
                 LET r == delete_bucket_db(db, o.bucket)
                 IN /\ db' = r.db
                    /\ Respond(h, Response(204, <<>>, <<>>))
            [] o.op = "PutObject" ->
                 LET r == put_object_db(db, user[h], o.bucket, o.key, req[h].body, now)
                 IN /\ db' = r.db
                    /\ Respond(h, Response(200, [ETag |-> Md5(req[h].body)], <<>>))
            [] o.op = "GetObject" ->
                 LET r == get_object_db(db, o.bucket, o.key)
                 IN /\ UNCHANGED db
                    /\ Respond(h, IF r.ret # Ok THEN Panicked(r.ret)
                                  ELSE Response(200,
                                         [Last_Modified |-> r.object.last_modified], buf[h]))
            [] o.op = "DeleteObject" ->
                 LET r == delete_object_db(db, o.bucket, o.key)
                 IN /\ db' = r.db
                    /\ Respond(h, Response(204, <<>>, <<>>))
    /\ written' = LET o == OpOf(h)
                  IN CASE o.op = "PutObject" ->
                            TreeInsert(written, <<o.bucket, o.key>>,
                                       [body |-> req[h].body, t |-> now])
                       [] o.op = "DeleteObject" -> TreeRemove(written, <<o.bucket, o.key>>)
                       [] o.op = "DeleteBucket" ->
                            [x \in {y \in DOMAIN written : y[1] # o.bucket} |-> written[x]]
                       [] OTHER -> written
    /\ UNCHANGED <<fs, now, hist, req, user, buf>>

\* the task ends; the handler is free for the next request
Finish(h) ==
    /\ pc[h] = "done"
    /\ Goto(h, "idle")
    /\ req' = [req EXCEPT ![h] = NoRequest]
    /\ user' = [user EXCEPT ![h] = NoUser]
    /\ buf' = [buf EXCEPT ![h] = <<>>]
    /\ resp' = [resp EXCEPT ![h] = NoResponse]
    /\ UNCHANGED <<fs, db, now, hist, lock, written>>

\* one step of the task that serves a request drawn from requests
HandlerNext(h, requests) ==
    \/ \E r \in requests : Receive(h, r)
    \/ FindUserLock(h)
    \/ FindUser(h)
    \/ CheckSignature(h)
    \/ ReadBody(h)
    \/ OpLock(h)
    \/ OpFs(h)
    \/ OpDb(h)
    \/ Finish(h)

NextServer == Tick \/ \E h \in Handlers : HandlerNext(h, ServerRequests)

SpecServer == ServerInit /\ [][NextServer]_vars

\* the scheduling of the server: tokio runs every task that can run, and its Mutex
\* hands the lock to the waiting tasks in the order of their lock() calls, so a task
\* that waits for the lock gets it once it is free often enough; requests arrive
\* or not, and the clock advances or not
ServerFairness ==
    \A h \in Handlers :
        /\ SF_vars(FindUserLock(h))
        /\ SF_vars(OpLock(h))
        /\ WF_vars(FindUser(h))
        /\ WF_vars(CheckSignature(h))
        /\ WF_vars(ReadBody(h))
        /\ WF_vars(OpFs(h))
        /\ WF_vars(OpDb(h))
        /\ WF_vars(Finish(h))

\* the requests whose Storage methods can fail inside the critical section: on the
\* bucket main creates and on one object of it, and one with an unknown access key
FairRequests ==
    {Signed(Unsigned(m, p, BodyOf(m, p)), BootUser[3], BootUser[4]) :
        m \in {"GET", "PUT", "DELETE"}, p \in {BucketPath(Buck), ObjectPath(Buck, Hello)}}
    \cup {Signed(PutHello, "nokey", BootUser[4])}

NextServerFair == \E h \in Handlers : HandlerNext(h, FairRequests)

SpecServerFair == ServerInit /\ [][NextServerFair]_vars /\ ServerFairness

(***************************************************************************)
(* The server whose clients may disconnect: hyper drops the future of      *)
(* App::handle, which can happen only where the future is suspended, at an *)
(* await: the two lock().await (a waiter that is dropped leaves the queue  *)
(* of the Mutex) and the collection of the body.  The Storage methods are  *)
(* synchronous calls made with the guard in hand.                          *)
(***************************************************************************)
Dropped == [status |-> 0, panic |-> "dropped", headers |-> <<>>, body |-> <<>>]

AwaitPoints == {"find_user_lock", "body", "op_lock"}

\* a future that can be dropped between the two steps of a Storage method too
Cancel_BetweenSteps(h) ==
    /\ pc[h] \in AwaitPoints \cup {"db"}
    /\ Respond(h, Dropped)
    /\ lock' = IF lock = h THEN NoHolder ELSE lock
    /\ UNCHANGED <<fs, db, now, hist, req, user, buf, written>>

Cancel(h) ==
    /\ pc[h] \in AwaitPoints
    /\ Respond(h, Dropped)
    /\ UNCHANGED <<fs, db, now, hist, lock, req, user, buf, written>>

NextCancel == \E h \in Handlers : HandlerNext(h, FairRequests) \/ Cancel(h)

SpecCancel == ServerInit /\ [][NextCancel]_vars

(***************************************************************************)
(* The signature check alone: App::check_signature applied to the user     *)
(* main creates, to a request drawn from SigningRequests and to the Auth   *)
(* parsed from its header.  The requests differ in method, path, query,    *)
(* the spaces around the host value, the declared signed headers and their *)
(* order, and in who signed what: the user for this request, another       *)
(* secret, or the user for another method.                                 *)
(***************************************************************************)
SigningHeaderLists ==
    {SignedHeaders, <<"x-amz-date", "host", "x-amz-content-sha256">>, <<"host">>}

SigningBase ==
    {[Unsigned(m, p, <<>>) EXCEPT !.query = q, !.headers["host"] = v] :
        m \in {"GET", "PUT"}, p \in {RootPath, BucketPath(Buck)}, q \in {"", "x=1"},
        v \in {<<"l">>, <<" ", "l", " ">>}}

SigningRequests ==
    UNION {LET a == [date |-> "20240101", region |-> "us-east-1", signed_headers |-> sh]
           IN {[r EXCEPT !.authorization =
                   SigV4Header(BootUser[3], a.date, a.region, a.signed_headers, g)] :
                 g \in {ClientSignature(BootUser[4], a, r),
                        ClientSignature("other", a, r),
                        ClientSignature(BootUser[4], a, [r EXCEPT !.method = "POST"])}} :
           r \in SigningBase, sh \in SigningHeaderLists}

SigningInit ==
    \E r \in SigningRequests :
        /\ fs = EmptyFs
        /\ db = EmptyDb
        /\ now = 0
        /\ last = Call("new", Ok)
        /\ failed = FALSE
        /\ purged = {}
        /\ lock = NoHolder
        /\ pc = [h \in Handlers |-> "idle"]
        /\ req = [h \in Handlers |-> IF h = "h1" THEN r ELSE NoRequest]
        /\ user = [h \in Handlers |->
                      IF h = "h1" THEN User(BootUser[1], BootUser[2], BootUser[3], BootUser[4])
                      ELSE NoUser]
        /\ buf = [h \in Handlers |-> <<>>]
        /\ resp = [h \in Handlers |-> NoResponse]
        /\ written = EmptyTree

Verify ==
    /\ pc["h1"] = "idle"
    /\ pc' = [pc EXCEPT !["h1"] = "verified"]
    /\ last' = Call("check_signature", App_check_signature(user["h1"], AuthOf("h1"), req["h1"]))
    /\ UNCHANGED <<fs, db, now, failed, purged, lock, req, user, buf, resp, written>>

SpecSigning == SigningInit /\ [][Verify]_vars

(***************************************************************************)
(* The classifier alone: App::detect_operation applied to a request whose  *)
(* method and path are drawn from Methods and from the paths of at most    *)
(* MaxPathLen characters that begin with '/'.                              *)
(***************************************************************************)
PathChars == {"/", "b", "k"}

ClassifierPaths ==
    {<<"/">> \o p : p \in UNION {[1..n -> PathChars] : n \in 0..(MaxPathLen - 1)}}

ClassifierInit ==
    \E m \in Methods, p \in ClassifierPaths :
        /\ fs = EmptyFs
        /\ db = EmptyDb
        /\ now = 0
        /\ last = Call("new", Ok)
        /\ failed = FALSE
        /\ purged = {}
        /\ lock = NoHolder
        /\ pc = [h \in Handlers |-> "idle"]
        /\ req = [h \in Handlers |-> IF h = "h1" THEN Unsigned(m, p, <<>>) ELSE NoRequest]
        /\ user = [h \in Handlers |-> NoUser]
        /\ buf = [h \in Handlers |-> <<>>]
        /\ resp = [h \in Handlers |-> NoResponse]
        /\ written = EmptyTree

Classify ==
    /\ pc["h1"] = "idle"
    /\ pc' = [pc EXCEPT !["h1"] = "classified"]
    /\ last' = Call("detect_operation", App_detect_operation(req["h1"]))
    /\ UNCHANGED <<fs, db, now, failed, purged, lock, req, user, buf, resp, written>>

SpecClassifier == ClassifierInit /\ [][Classify]_vars

(***************************************************************************)
(* The server whose process may die while a handler is between the         *)
(* filesystem step and the catalog step of its Storage method: the tasks   *)
(* and the Mutex are gone, the files and the sled trees stay as they are.  *)
(***************************************************************************)
Crash(h) ==
    /\ pc[h] = "db"
    /\ HasFsStep(OpOf(h).op)
    /\ pc' = [g \in Handlers |-> "crashed"]
    /\ lock' = NoHolder
    /\ UNCHANGED <<fs, db, now, hist, req, user, buf, resp, written>>

NextCrash == NextServer \/ \E h \in Handlers : Crash(h)

SpecCrash == ServerInit /\ [][NextCrash]_vars

(***************************************************************************)
(* Properties of the Storage Engine                                        *)
(***************************************************************************)
ObjectKeys(objects) == {o.key : o \in objects}

BucketNamesOf(buckets) == {b.name : b \in buckets}

\* C1: after a put_object(u, B, K, body) that returned, the next get_object(B, K)
\* returns body as payload and metadata with size = len(body) and a last_modified
\* not earlier than the start of the put.
C1_PutThenGet ==
    [][\A u \in UserIds, b \in BucketNames, k \in Keys, body \in Bodies :
         (PutObject(u, b, k, body) /\ last'.ret = Ok) =>
            LET g == Storage_get_object(fs', db', b, k)
            IN /\ g.ret = Ok
               /\ g.buf = body
               /\ g.object.size = Len(body)
               /\ g.object.last_modified >= now]_vars

\* C2: after any sequence of successful calls, every object of the catalog has a file
\* base_path/<bucket>/<key> whose length is the object's recorded size.
C2_ObjectsHaveFiles ==
    ~failed =>
        \A b \in DOMAIN db.bucket_name_to_objects :
            \A o \in db.bucket_name_to_objects[b] :
                /\ FileExists(fs, o.bucket, o.key)
                /\ Len(fs.files[<<o.bucket, o.key>>]) = o.size

\* C3: after a delete_object(B, K) that returned, for an object the catalog held,
\* list_objects(B) does not contain K and get_object(B, K) does not succeed.
C3_DeleteRemoves ==
    [][\A b \in BucketNames, k \in Keys :
         (DeleteObject(b, k) /\ last'.ret = Ok /\ Db_get_object(db, b, k).some) =>
            /\ k \notin ObjectKeys(Storage_list_objects(db', b))
            /\ Storage_get_object(fs', db', b, k).ret # Ok]_vars

\* C4: a delete_object(B, K) that returned leaves every other object as it was:
\* list_objects lists it and get_object returns its payload and metadata as before.
C4_DeleteFrame ==
    [][\A b \in BucketNames, k \in Keys :
         (DeleteObject(b, k) /\ last'.ret = Ok) =>
            \A b2 \in BucketNames, k2 \in Keys :
                (b2 # b \/ k2 # k) =>
                    /\ {o \in Storage_list_objects(db', b2) : o.key = k2}
                         = {o \in Storage_list_objects(db, b2) : o.key = k2}
                    /\ Storage_get_object(fs', db', b2, k2)
                         = Storage_get_object(fs, db, b2, k2)]_vars

\* C5: after any sequence of successful create_bucket and delete_bucket calls,
\* list_buckets(u) returns exactly the buckets whose record in bucket_name_to_bucket
\* has owner_id = u.
C5_ListIsOwned ==
    ~failed =>
        \A u \in DOMAIN db.user_id_to_user :
            LET l == Storage_list_buckets(db, u)
            IN /\ l.ret = Ok
               /\ BucketNamesOf(l.buckets)
                    = {n \in DOMAIN db.bucket_name_to_bucket :
                          db.bucket_name_to_bucket[n].owner_id = u}

\* C6: a delete_bucket(B) that returned leaves no directory base_path/B and an empty
\* list_objects(B); and from then on, also after B is created again, no object that
\* B held at the deletion is listed by list_objects(B) or returned by get_object(B, _)
\* (until a put_object writes that key again).
C6_DeletedBucketIsEmpty ==
    /\ [](\A o \in purged :
             /\ o.key \notin ObjectKeys(Storage_list_objects(db, o.bucket))
             /\ Storage_get_object(fs, db, o.bucket, o.key).ret # Ok)
    /\ [][\A b \in BucketNames :
            (DeleteBucket(b) /\ last'.ret = Ok) =>
                /\ ~DirExists(fs', b)
                /\ Storage_list_objects(db', b) = {}
                /\ \A k \in Keys : Storage_get_object(fs', db', b, k).ret # Ok]_vars

\* a bucket that held an object was deleted and has been created again
C6_Witness ==
    /\ last = Call("create_bucket", Ok)
    /\ \E o \in purged :
          /\ TreeHas(db.bucket_name_to_bucket, o.bucket)
          /\ DirExists(fs, o.bucket)

\* C7: in every reachable state, every bucket with a record in the catalog has its
\* directory base_path/<name>.
C7_BucketsHaveDirs ==
    \A n \in DOMAIN db.bucket_name_to_bucket : DirExists(fs, n)

\* after successful calls only, one bucket was deleted and another is in the catalog
C7_Witness ==
    /\ ~failed
    /\ last = Call("delete_bucket", Ok)
    /\ DOMAIN db.bucket_name_to_bucket # {}

\* C8: a create_bucket(_, B) for a B that has a record in the catalog panics with
\* "bucket already exists!" and leaves the catalog (the record, the owners' lists, the
\* objects) and the filesystem as they were.
C8_DuplicateCreate ==
    [][\A o \in UserIds, n \in BucketNames :
         (CreateBucket(o, n) /\ TreeHas(db.bucket_name_to_bucket, n)) =>
            /\ last'.ret = PanicBucketExists
            /\ db' = db
            /\ fs' = fs]_vars

\* a create_bucket on an existing name by a user who is not its owner has panicked
C8_Witness ==
    /\ last = Call("create_bucket", PanicBucketExists)
    /\ \E n \in DOMAIN db.bucket_name_to_bucket :
          /\ db.bucket_name_to_objects # EmptyTree
          /\ \E u \in DOMAIN db.user_id_to_user :
                u # db.bucket_name_to_bucket[n].owner_id

(***************************************************************************)
(* Properties of the server                                                *)
(***************************************************************************)
\* the request carries a header of the SigV4 form whose signature is not the hex HMAC
\* that the secret of the access key's owner gives for this request
BadlySigned(r) ==
    /\ r.method # "none"
    /\ r.authorization.kind = "sigv4"
    /\ \E id \in DOMAIN db.user_id_to_user :
          LET u == db.user_id_to_user[id]
          IN /\ u.access_key = r.authorization.access_key
             /\ r.authorization.signature
                  # ClientSignature(u.secret_access_key, r.authorization, r)

\* the handler is inside a Storage method
InStorage(h) == pc[h] \in {"find_user", "fs", "db"}

\* the handler has run the filesystem step of a Storage method and not yet its catalog step
BetweenSteps(h) == pc[h] = "db" /\ HasFsStep(OpOf(h).op)

\* C9: a handler whose request is badly signed answers 401 with an empty body, never
\* gets to a Storage method other than find_user, and none of its steps changes the
\* catalog or the filesystem.
C9_BadSignatureRejected ==
    /\ [](\A h \in Handlers :
             BadlySigned(req[h]) =>
                /\ pc[h] \in {"find_user_lock", "find_user", "check", "done"}
                /\ pc[h] = "done" => resp[h] = Response(401, <<>>, <<>>))
    /\ [][\A h \in Handlers :
             (BadlySigned(req[h]) /\ pc'[h] # pc[h]) => (fs' = fs /\ db' = db)]_vars

\* a badly signed PUT /buck/h was answered 401 and there is no such object
C9_Witness ==
    \E h \in Handlers :
        /\ BadlySigned(req[h])
        /\ req[h].method = "PUT"
        /\ req[h].path = ObjectPath(Buck, Hello)
        /\ pc[h] = "done"
        /\ resp[h].status = 401
        /\ ~FileExists(fs, Buck, Hello)
        /\ ~Db_get_object(db, Buck, Hello).some

\* C10: at most one handler is inside a Storage method, and it holds the lock; while a
\* handler is between the filesystem step and the catalog step of its method, no other
\* handler is inside a Storage method and every step that changes the filesystem or
\* the catalog is that handler's own.
C10_OneCriticalSection ==
    /\ [](/\ Cardinality({h \in Handlers : InStorage(h)}) <= 1
          /\ \A h \in Handlers : InStorage(h) => lock = h)
    /\ [][\A h \in Handlers :
             BetweenSteps(h) =>
                \/ pc'[h] # pc[h]
                \/ /\ fs' = fs
                   /\ db' = db
                   /\ \A g \in Handlers \ {h} : ~InStorage(g)']_vars

\* one handler is between the two steps of a put_object while the other waits for the lock
C10_Witness ==
    \E h \in Handlers, g \in Handlers :
        /\ g # h
        /\ BetweenSteps(h)
        /\ OpOf(h).op = "PutObject"
        /\ pc[g] \in {"find_user_lock", "op_lock"}

\* the handler has entered App::handle's first Storage call and has not returned yet
InHandler(h) == pc[h] \in {"find_user", "check", "body", "op_lock", "fs", "db"}

\* C11: from its first acquisition of the lock until it returns, a handler holds the
\* lock: its user lookup, its signature check and its Storage method are one critical
\* section, and no other handler is inside a Storage method meanwhile.
C11_LockHeldThroughHandler ==
    \A h \in Handlers :
        InHandler(h) =>
            /\ lock = h
            /\ \A g \in Handlers \ {h} : ~InStorage(g)

\* C12: the Storage methods of the handlers take effect one at a time, in the order of
\* their lock acquisitions; so a get_object(B, K) ordered after a put_object(B, K)
\* that returned, with no delete of K or of B ordered between the two, answers 200
\* with that put's payload and that put's metadata (its length and its time).
C12_GetSeesLastPut ==
    [][\A h \in Handlers :
         (/\ pc[h] = "db"
          /\ pc'[h] = "done"
          /\ OpOf(h).op = "GetObject"
          /\ TreeHas(written, <<OpOf(h).bucket, OpOf(h).key>>)) =>
            LET w == written[<<OpOf(h).bucket, OpOf(h).key>>]
                o == get_object_db(db, OpOf(h).bucket, OpOf(h).key)
            IN /\ resp'[h] = Response(200, [Last_Modified |-> w.t], w.body)
               /\ o.object.size = Len(w.body)]_vars

\* C13: after a crash between the filesystem step and the catalog step of a write,
\* every bucket of the catalog has its directory and every object of the catalog has
\* a file whose length is its recorded size (only orphan files or directories differ).
C13_CrashLeavesOrphansOnly ==
    (\A h \in Handlers : pc[h] = "crashed") =>
        /\ \A n \in DOMAIN db.bucket_name_to_bucket : DirExists(fs, n)
        /\ \A b \in DOMAIN db.bucket_name_to_objects :
              \A o \in db.bucket_name_to_objects[b] :
                  /\ FileExists(fs, o.bucket, o.key)
                  /\ Len(fs.files[<<o.bucket, o.key>>]) = o.size

\* C14: get_object(B, K) succeeds only when the file base_path/B/K and the catalog
\* entry (B, K) both exist; when either is missing it returns NotFound as an error
\* value (it does not panic), and it leaves the catalog and the filesystem unchanged.
C14_GetObjectNotFound ==
    [][\A b \in BucketNames, k \in Keys :
         GetObject(b, k) =>
            LET both == FileExists(fs, b, k) /\ Db_get_object(db, b, k).some
            IN /\ last'.ret = Ok => both
               /\ ~both => last'.ret = "NotFound"
               /\ last'.ret \notin {PanicIo, PanicNone}
               /\ fs' = fs
               /\ db' = db]_vars

\* the segments of a path: the text after the leading '/', cut at its first '/'
\* (if it has one), without the empty pieces
C15_Segments(path) ==
    LET rest == SubSeq(path, 2, Len(path))
        cuts == {i \in 1..Len(rest) : rest[i] = "/" /\ \A j \in 1..(i - 1) : rest[j] # "/"}
        i == CHOOSE c \in cuts : TRUE
        a == IF cuts = {} THEN rest ELSE SubSeq(rest, 1, i - 1)
        z == IF cuts = {} THEN <<>> ELSE SubSeq(rest, i + 1, Len(rest))
    IN IF a # <<>> /\ z # <<>> THEN <<a, z>>
       ELSE IF a # <<>> THEN <<a>>
       ELSE IF z # <<>> THEN <<z>>
       ELSE <<>>

\* the table of the classifier
C15_Table(method, path) ==
    LET g == C15_Segments(path)
    IN CASE method = "GET" /\ Len(g) = 0 -> Operation("ListBuckets", <<>>, <<>>)
         [] method = "GET" /\ Len(g) = 1 -> Operation("ListObjects", g[1], <<>>)
         [] method = "GET" /\ Len(g) = 2 -> Operation("GetObject", g[1], g[2])
         [] method = "PUT" /\ Len(g) = 1 -> Operation("CreateBucket", g[1], <<>>)
         [] method = "PUT" /\ Len(g) = 2 -> Operation("PutObject", g[1], g[2])
         [] method = "DELETE" /\ Len(g) = 1 -> Operation("DeleteBucket", g[1], <<>>)
         [] method = "DELETE" /\ Len(g) = 2 -> Operation("DeleteObject", g[1], g[2])
         [] OTHER -> Operation("ListBuckets", <<>>, <<>>)

\* C15: for every method and every path that begins with '/', the classifier returns
\* the operation of the table; a method other than GET, PUT and DELETE, and a PUT or
\* a DELETE on the path '/', give ListBuckets, never a mutating operation.
C15_ClassifierTable ==
    pc["h1"] = "classified" =>
        LET r == req["h1"]
        IN /\ last.ret = Some(C15_Table(r.method, r.path))
           /\ (r.method \notin {"PUT", "DELETE"} \/ r.path = RootPath) =>
                 last.ret.val.op \in {"ListBuckets", "ListObjects", "GetObject"}

\* a DELETE on the path '/' was classified as ListBuckets
C15_Witness ==
    /\ pc["h1"] = "classified"
    /\ req["h1"].method = "DELETE"
    /\ req["h1"].path = RootPath
    /\ last.ret = Some(Operation("ListBuckets", <<>>, <<>>))

\* C16: after any sequence of new_user calls, at most one User record carries a given
\* access key, and find_user(access_key) returns that user.
C16_AccessKeyUnique ==
    \A id \in DOMAIN db.user_id_to_user :
        LET ak == db.user_id_to_user[id].access_key
        IN /\ \A other \in DOMAIN db.user_id_to_user :
                 db.user_id_to_user[other].access_key = ak => other = id
           /\ Storage_find_user(db, ak) = Some(db.user_id_to_user[id])

\* C17: in every reachable state, every object of the catalog belongs to a bucket that
\* has a record in the catalog (put_object records nothing for a name without one,
\* also when a directory of that name exists).
C17_ObjectsHaveBuckets ==
    \A b \in DOMAIN db.bucket_name_to_objects :
        \A o \in db.bucket_name_to_objects[b] :
            TreeHas(db.bucket_name_to_bucket, o.bucket)

\* C18: in every reachable state, the owner_id of every bucket record of the catalog is
\* the id of a User of the catalog (a create_bucket for an owner that no new_user call
\* created leaves no bucket record).
C18_OwnersExist ==
    \A n \in DOMAIN db.bucket_name_to_bucket :
        TreeHas(db.user_id_to_user, db.bucket_name_to_bucket[n].owner_id)

\* what the filesystem step of the handler's Storage method leaves behind
FsStepDone(h) ==
    LET o == OpOf(h)
    IN CASE o.op = "CreateBucket" -> DirExists(fs, o.bucket)
         [] o.op = "PutObject" ->
               FileExists(fs, o.bucket, o.key) /\ fs.files[<<o.bucket, o.key>>] = req[h].body
         [] o.op = "DeleteObject" -> ~FileExists(fs, o.bucket, o.key)
         [] o.op = "DeleteBucket" -> ~DirExists(fs, o.bucket)
         [] OTHER -> FALSE

\* C19: in every write operation the filesystem step is complete before the catalog
\* step starts (the directory is made, the file written, the file or the directory
\* tree removed, before the catalog changes), and when the filesystem step fails the
\* catalog step is not executed.
C19_FsBeforeCatalog ==
    [][/\ db' # db =>
             \E h \in Handlers :
                 /\ pc[h] = "db"
                 /\ pc'[h] = "done"
                 /\ FsStepDone(h)
                 /\ fs' = fs
       /\ \A h \in Handlers :
             pc[h] = "fs" =>
                /\ db' = db
                /\ pc'[h] \in {"fs", "db", "done"}
                /\ (pc'[h] = "db" /\ OpOf(h).op # "GetObject") => FsStepDone(h)'
                /\ pc'[h] = "done" => (resp'[h].panic = PanicIo /\ fs' = fs)]_vars

\* the filesystem step of a put_object failed (no directory) and the catalog has no
\* object
C19_Witness ==
    \E h \in Handlers :
        /\ pc[h] = "done"
        /\ OpOf(h).op = "PutObject"
        /\ resp[h].panic = PanicIo
        /\ ~DirExists(fs, OpOf(h).bucket)
        /\ db.bucket_name_to_objects = EmptyTree

\* C20: the lock is held only by a handler that is inside a Storage method, never
\* after the handler has finished or its method has panicked; under the fair
\* scheduling of the tasks every handler that waits for the lock gets it, and every
\* request that was received comes to its end.
C20_LockAlwaysReleased ==
    /\ [](\A h \in Handlers : lock = h => InStorage(h))
    /\ \A h \in Handlers : (pc[h] \in {"find_user_lock", "op_lock"}) ~> (lock = h)
    /\ \A h \in Handlers : (pc[h] # "idle") ~> (pc[h] = "done")

\* one handler's Storage method has panicked inside the critical section and the
\* other handler now holds the lock
C20_Witness ==
    \E h \in Handlers, g \in Handlers :
        /\ g # h
        /\ pc[h] = "done"
        /\ resp[h].panic \in {PanicIo, PanicNone, PanicBucketExists}
        /\ App_detect_operation(req[h]).some
        /\ Auth_parse(App_get_auth_header(req[h])).some
        /\ lock = g

\* C21: a Storage call that fails (panics) leaves the catalog and the filesystem
\* exactly as they were before the call, whatever the cause of the failure.
C21_FailureChangesNothing ==
    [][last'.ret # Ok => (fs' = fs /\ db' = db)]_vars

\* C22: a new_user with an id that exists panics with "user already exists!" and
\* leaves the three user trees unchanged; a new_user(u) that returned makes
\* find_user(u.access_key) return u and list_buckets(u.id) return the empty set, and
\* list_buckets(u.id) keeps returning the empty set, not an error, until a
\* create_bucket of u.
C22_NewUser ==
    /\ [][\A u \in NewUserInputs \cup {NewUserInputs3} :
            NewUser(u) =>
               IF TreeHas(db.user_id_to_user, u[1])
               THEN /\ last'.ret = PanicUserExists
                    /\ db'.user_id_to_user = db.user_id_to_user
                    /\ db'.user_id_to_bucket = db.user_id_to_bucket
                    /\ db'.access_key_to_user_id = db.access_key_to_user_id
               ELSE /\ last'.ret = Ok
                    /\ Storage_find_user(db', u[3]) = Some(User(u[1], u[2], u[3], u[4]))
                    /\ Storage_list_buckets(db', u[1]) = [ret |-> Ok, buckets |-> {}]]_vars
    /\ [][\A id \in UserIds :
            (/\ Storage_list_buckets(db, id) = [ret |-> Ok, buckets |-> {}]
             /\ ~\E n \in BucketNames : CreateBucket(id, n)) =>
                Storage_list_buckets(db', id) = [ret |-> Ok, buckets |-> {}]]_vars

\* a new_user with an existing id and another access key has panicked
C22_Witness ==
    /\ last = Call("new_user", PanicUserExists)
    /\ \E id \in DOMAIN db.user_id_to_user :
          /\ db.user_id_to_user[id].display_name = "U1"
          /\ Storage_list_buckets(db, id).buckets = {}

\* the request's Authorization header is absent, empty, or not of the form that the
\* pattern of Auth::parse matches
MalformedAuth(r) == r.method # "none" /\ r.authorization.kind # "sigv4"

\* C23: a request whose Authorization header is absent, empty or malformed is rejected
\* with the MalformedAuth error (a response with status 400 or 401, not a panic), and
\* its handler performs no Storage method.
C23_MalformedAuthRejected ==
    \A h \in Handlers :
        MalformedAuth(req[h]) =>
            /\ pc[h] = "done"
            /\ resp[h].panic = ""
            /\ resp[h].status \in {400, 401}

\* the handler is inside a Storage method that writes
InWrite(h) ==
    /\ pc[h] \in {"fs", "db"}
    /\ OpOf(h).op \in {"CreateBucket", "PutObject", "DeleteObject", "DeleteBucket"}

\* C24: a handler that has started a Storage write (it holds the lock and is at or
\* past the filesystem step) is not dropped before the write is complete: its next
\* steps are the rest of the method, ending with its response (or with the panic of
\* a failed filesystem step), and no other handler steps in; and what a put_object
\* has written is what the catalog and the filesystem hold when it is complete.
C24_WriteRunsToCompletion ==
    [][\A h \in Handlers :
         InWrite(h) =>
            /\ pc'[h] # pc[h] =>
                  /\ resp'[h] # Dropped
                  /\ pc[h] = "fs" => (pc'[h] = "db" \/ resp'[h].panic = PanicIo)
                  /\ pc[h] = "db" => pc'[h] = "done"
                  /\ (pc[h] = "db" /\ OpOf(h).op = "PutObject") =>
                        /\ FileExists(fs', OpOf(h).bucket, OpOf(h).key)
                        /\ fs'.files[<<OpOf(h).bucket, OpOf(h).key>>] = req[h].body
                        /\ Db_get_object(db', OpOf(h).bucket, OpOf(h).key).some
            /\ pc'[h] = pc[h] => (fs' = fs /\ db' = db /\ lock' = h)]_vars

\* one handler is between the two steps of a put_object and the other handler's
\* request was dropped while it waited
C24_Witness ==
    \E h \in Handlers, g \in Handlers :
        /\ g # h
        /\ pc[h] = "db"
        /\ OpOf(h).op = "PutObject"
        /\ pc[g] = "done"
        /\ resp[g] = Dropped

C26_PutFrame ==
    [][\A u \in UserIds, b \in BucketNames, k \in Keys, body \in Bodies :
         PutObject(u, b, k, body) =>
            /\ \A b2 \in BucketNames, k2 \in Keys :
                  (b2 # b \/ k2 # k) =>
                     /\ {o \in Storage_list_objects(db', b2) : o.key = k2}
                          = {o \in Storage_list_objects(db, b2) : o.key = k2}
                     /\ FileExists(fs', b2, k2) = FileExists(fs, b2, k2)
                     /\ FileExists(fs, b2, k2) =>
                           fs'.files[<<b2, k2>>] = fs.files[<<b2, k2>>]
            /\ fs'.dirs = fs.dirs
            /\ db'.bucket_name_to_bucket = db.bucket_name_to_bucket
            /\ db'.user_id_to_bucket = db.user_id_to_bucket
            /\ db'.user_id_to_user = db.user_id_to_user
            /\ db'.access_key_to_user_id = db.access_key_to_user_id]_vars

\* a put_object has returned in a state where its bucket holds another key as well and
\* another bucket holds an object
C26_Witness ==
    /\ last = Call("put_object", Ok)
    /\ \E b \in DOMAIN db.bucket_name_to_objects, c \in DOMAIN db.bucket_name_to_objects :
          /\ b # c
          /\ Cardinality(db.bucket_name_to_objects[b]) = 2
          /\ db.bucket_name_to_objects[c] # {}

\* the sum of the recorded sizes of a set of objects
RECURSIVE SumOfSizes(_)
SumOfSizes(objects) ==
    IF objects = {} THEN 0
    ELSE LET o == CHOOSE x \in objects : TRUE
         IN o.size + SumOfSizes(objects \ {o})

\* C27: in every reachable state, the object_count of every bucket record is the
\* number of objects in the bucket's catalog set and its size is the sum of their
\* sizes.
C27_CountersFollowContents ==
    \A n \in DOMAIN db.bucket_name_to_bucket :
        LET objects == Storage_list_objects(db, n)
        IN /\ db.bucket_name_to_bucket[n].object_count = Cardinality(objects)
           /\ db.bucket_name_to_bucket[n].size = SumOfSizes(objects)

\* a header value without the spaces at its ends
C28_Trimmed(v) ==
    LET solid == {i \in 1..Len(v) : v[i] # " "}
    IN IF solid = {} THEN <<>>
       ELSE SubSeq(v, CHOOSE i \in solid : \A j \in solid : i <= j,
                      CHOOSE i \in solid : \A j \in solid : i >= j)

\* the seven parts of the canonical request, in order
C28_CanonicalRequest(a, r) ==
    <<r.method, r.path, r.query,
      [i \in 1..Len(a.signed_headers) |->
          <<a.signed_headers[i], C28_Trimmed(r.headers[a.signed_headers[i]])>>],
      "", a.signed_headers, r.headers["x-amz-content-sha256"]>>

\* the four parts of the string to sign, in order
C28_StringToSign(a, r) ==
    <<"AWS4-HMAC-SHA256", r.headers["x-amz-date"],
      <<a.date, a.region, "s3", "aws4_request">>,
      Hex(Sha256(C28_CanonicalRequest(a, r)))>>

\* kSigning: the chain of HMACs from "AWS4" + secret over date, region, "s3" and
\* "aws4_request"
C28_SigningKey(a, secret) ==
    Hmac(Hmac(Hmac(Hmac(<<"AWS4", secret>>, a.date), a.region), "s3"), "aws4_request")

\* C28: the canonical request is the join of the method, the path, the raw query, one
\* name:trimmed-value line per declared signed header in declared order, an empty
\* line, the signed-headers list and the x-amz-content-sha256 value; the string to
\* sign is the scheme, the x-amz-date value, the scope and the hex SHA-256 of the
\* canonical request; and the request is accepted exactly when the hex HMAC of the
\* string to sign under the derived signing key is the parsed signature.
C28_SignatureCheck ==
    pc["h1"] = "verified" =>
        LET r == req["h1"]
            a == AuthOf("h1")
        IN /\ Auth_canonical_request(a, r) = C28_CanonicalRequest(a, r)
           /\ Auth_string_to_sign(a, r) = C28_StringToSign(a, r)
           /\ last.ret = (a.signature
                            = Hex(Hmac(C28_SigningKey(a, user["h1"].secret_access_key),
                                       C28_StringToSign(a, r))))

\* a request whose host value has spaces around it and whose signed headers are
\* declared in another order was accepted
C28_Witness ==
    /\ pc["h1"] = "verified"
    /\ last = Call("check_signature", TRUE)
    /\ req["h1"].headers["host"] = <<" ", "l", " ">>
    /\ req["h1"].authorization.signed_headers = <<"x-amz-date", "host", "x-amz-content-sha256">>
    /\ req["h1"].query = "x=1"

====
